---------------------------- MODULE Spec2Model ----------------------------
(***************************************************************************)
(* Model of src/main.py: process_base64_file (the unified extraction       *)
(* pipeline) and the endpoint create_processing_job that calls it.         *)
(*                                                                         *)
(* One behaviour is one request.  The request's file is drawn in Init; the *)
(* actions follow the control flow of process_base64_file: sniffing and    *)
(* dispatch, the PDF page loop, the image / DOC / DOCX / XLSX branches, the *)
(* exception handlers, and finally the endpoint.  Library calls            *)
(* (pdfplumber, pdf2image, PIL, python-docx, olefile, pandas, re.findall)  *)
(* are environment steps: what they return is part of the drawn file, and  *)
(* whether they throw is a nondeterministic choice of the action.          *)
(*                                                                         *)
(* Text is a sequence of one-character strings, so that str.strip(),       *)
(* str.join(), re.sub() and len() are computed as Python computes them.    *)
(* An Optional value is None (the empty tuple) or Some(x) (a 1-tuple).     *)
(***************************************************************************)
EXTENDS Integers, Sequences, FiniteSets

None == <<>>
Some(x) == <<x>>

(***************************************************************************)
(* Bounds of the model.                                                    *)
(***************************************************************************)
MaxPages == 3
MaxParas == 2
MaxTables == 1
MaxSpecials == 1
MaxStreams == 2

(***************************************************************************)
(* Program constants.                                                      *)
(***************************************************************************)
DPI == 200
StreamWordCap == 100
TotalWordCap == 200
MinWords == 10
ChunkWordCap == 50
MinTextLen == 20
PdfInnerStatus == 500
UnexpectedStatus == 400
EndpointStatus == 400

(***************************************************************************)
(* Python string operations on character sequences.                        *)
(***************************************************************************)
SeqsUpTo(S, n) == UNION {[1..m -> S] : m \in 0..n}

Rep(n, w) == [i \in 1..n |-> w]

\* str.isspace() characters that occur in the model's alphabet
Whitespace == {" ", "\n", "\t", "\r", "\f"}

IsSpace(c) == c \in Whitespace

\* s.strip(): leading and trailing whitespace removed
Strip(s) ==
  LET idx == {i \in 1..Len(s) : ~IsSpace(s[i])}
  IN  IF idx = {} THEN <<>>
      ELSE SubSeq(s, CHOOSE i \in idx : \A j \in idx : i <= j,
                     CHOOSE i \in idx : \A j \in idx : j <= i)

\* Python truthiness of an Optional[str]: None and "" are falsy
Truthy(t) == t # None /\ t[1] # <<>>

\* s.startswith(p)
StartsWith(s, p) == Len(s) >= Len(p) /\ SubSeq(s, 1, Len(p)) = p

\* sep.join(parts), computed by halving the list
RECURSIVE Join(_, _)
Join(sep, parts) ==
  IF parts = <<>> THEN <<>>
  ELSE IF Len(parts) = 1 THEN parts[1]
  ELSE LET h == Len(parts) \div 2
       IN  Join(sep, SubSeq(parts, 1, h)) \o sep
             \o Join(sep, SubSeq(parts, h + 1, Len(parts)))

\* the concatenation of a sequence of lists (list.extend in a loop)
Flatten(ss) == Join(<<>>, ss)

\* xs[:n]
Take(xs, n) == SubSeq(xs, 1, IF Len(xs) < n THEN Len(xs) ELSE n)

KeepsChar(p) == ~(p[2] /\ p[3])

\* re.sub(r'\s+', ' ', s): every run of whitespace becomes one space
CollapseSpaces(s) ==
  LET marked == [i \in 1..Len(s) |->
                   <<s[i], IsSpace(s[i]), i > 1 /\ IsSpace(s[i - 1])>>]
      kept == SelectSeq(marked, KeepsChar)
  IN  [i \in 1..Len(kept) |-> IF kept[i][2] THEN " " ELSE kept[i][1]]

\* f"{n}" for an int n >= 0
RECURSIVE Digits(_)
Digits(n) ==
  LET d == <<"0", "1", "2", "3", "4", "5", "6", "7", "8", "9">>
  IN  IF n < 10 THEN <<d[n + 1]>> ELSE Digits(n \div 10) \o <<d[(n % 10) + 1]>>

\* \w of Python's re on str, for the characters of Latin-1
WordChars ==
  {"a", "b", "c", "d", "e", "f", "g", "h", "i", "j", "k", "l", "m", "n", "o", "p", "q",
   "r", "s", "t", "u", "v", "w", "x", "y", "z", "A", "B", "C", "D", "E", "F", "G", "H",
   "I", "J", "K", "L", "M", "N", "O", "P", "Q", "R", "S", "T", "U", "V", "W", "X", "Y",
   "Z", "0", "1", "2", "3", "4", "5", "6", "7", "8", "9", "_", "ª", "µ", "º", "À", "Á",
   "Â", "Ã", "Ä", "Å", "Æ", "Ç", "È", "É", "Ê", "Ë", "Ì", "Í", "Î", "Ï", "Ð", "Ñ", "Ò",
   "Ó", "Ô", "Õ", "Ö", "Ø", "Ù", "Ú", "Û", "Ü", "Ý", "Þ", "ß", "à", "á", "â", "ã", "ä",
   "å", "æ", "ç", "è", "é", "ê", "ë", "ì", "í", "î", "ï", "ð", "ñ", "ò", "ó", "ô", "õ",
   "ö", "ø", "ù", "ú", "û", "ü", "ý", "þ", "ÿ"}

\* the characters the final cleanup's class names besides \w and \s
CleanupExtra ==
  {".", ",", "!", "?", ":", ";", "-", "à", "á", "â", "ã", "ä", "å", "ç", "è", "é", "ê",
   "ë", "ì", "í", "î", "ï", "ñ", "ò", "ó", "ô", "õ", "ö", "ù", "ú", "û", "ü", "ý", "ÿ"}

\* re.sub(r'[^\w\s.,!?:;\-...]', ' ', s) followed by re.sub(r'\s+', ' ', s).strip()
FinalCleanup(s) ==
  LET blanked == [i \in 1..Len(s) |->
                    IF s[i] \in WordChars \cup Whitespace \cup CleanupExtra
                    THEN s[i] ELSE " "]
  IN  Strip(CollapseSpaces(blanked))

(***************************************************************************)
(* String literals of the source, as character sequences.                  *)
(***************************************************************************)
MimePdf ==
  <<"a", "p", "p", "l", "i", "c", "a", "t", "i", "o", "n", "/", "p", "d", "f">>

ImagePrefix ==
  <<"i", "m", "a", "g", "e", "/">>

MimeMsword ==
  <<"a", "p", "p", "l", "i", "c", "a", "t", "i", "o", "n", "/", "m", "s", "w", "o", "r",
    "d">>

MimeDocx ==
  <<"a", "p", "p", "l", "i", "c", "a", "t", "i", "o", "n", "/", "v", "n", "d", ".", "o",
    "p", "e", "n", "x", "m", "l", "f", "o", "r", "m", "a", "t", "s", "-", "o", "f", "f",
    "i", "c", "e", "d", "o", "c", "u", "m", "e", "n", "t", ".", "w", "o", "r", "d", "p",
    "r", "o", "c", "e", "s", "s", "i", "n", "g", "m", "l", ".", "d", "o", "c", "u", "m",
    "e", "n", "t">>

MimeXlsx ==
  <<"a", "p", "p", "l", "i", "c", "a", "t", "i", "o", "n", "/", "v", "n", "d", ".", "o",
    "p", "e", "n", "x", "m", "l", "f", "o", "r", "m", "a", "t", "s", "-", "o", "f", "f",
    "i", "c", "e", "d", "o", "c", "u", "m", "e", "n", "t", ".", "s", "p", "r", "e", "a",
    "d", "s", "h", "e", "e", "t", "m", "l", ".", "s", "h", "e", "e", "t">>

MimePng ==
  <<"i", "m", "a", "g", "e", "/", "p", "n", "g">>

MimeJpeg ==
  <<"i", "m", "a", "g", "e", "/", "j", "p", "e", "g">>

MimeExe ==
  <<"a", "p", "p", "l", "i", "c", "a", "t", "i", "o", "n", "/", "x", "-", "d", "o", "s",
    "e", "x", "e", "c">>

MimePlain ==
  <<"t", "e", "x", "t", "/", "p", "l", "a", "i", "n">>

MimeXls ==
  <<"a", "p", "p", "l", "i", "c", "a", "t", "i", "o", "n", "/", "v", "n", "d", ".", "m",
    "s", "-", "e", "x", "c", "e", "l">>

TableStart ==
  <<"\n", "-", "-", "-", " ", "T", "A", "B", "E", "L", "A", " ", "-", "-", "-">>

TableEnd ==
  <<"-", "-", "-", " ", "F", "I", "M", " ", "T", "A", "B", "E", "L", "A", " ", "-", "-",
    "-", "\n">>

CellSep ==
  <<" ", "|", " ">>

SpecialPrefix ==
  <<"[", "E", "L", "E", "M", "E", "N", "T", "O", " ", "E", "S", "P", "E", "C", "I", "A",
    "L", "]", ":", " ">>

DocNoteHead ==
  <<"[", "T", "E", "X", "T", "O", " ", "E", "X", "T", "R", "A", "Í", "D", "O", " ", "D",
    "E", " ", "A", "R", "Q", "U", "I", "V", "O", " ", "D", "O", "C", "]", "\n", "\n">>

DocNoteTail ==
  <<"\n", "\n", "[", "N", "O", "T", "A", ":", " ", "E", "x", "t", "r", "a", "ç", "ã",
    "o", " ", "d", "e", " ", "a", "r", "q", "u", "i", "v", "o", " ", "D", "O", "C", " ",
    "a", "n", "t", "i", "g", "o", ".", " ", "P", "a", "r", "a", " ", "m", "e", "l", "h",
    "o", "r", " ", "q", "u", "a", "l", "i", "d", "a", "d", "e", ",", " ", "c", "o", "n",
    "v", "e", "r", "t", "a", " ", "p", "a", "r", "a", " ", "D", "O", "C", "X", "]">>

AdvisoryHead ==
  <<"[", "A", "R", "Q", "U", "I", "V", "O", " ", "D", "O", "C", " ", "D", "E", "T", "E",
    "C", "T", "A", "D", "O", " ", "-", " ", "E", "X", "T", "R", "A", "Ç", "Ã", "O", " ",
    "L", "I", "M", "I", "T", "A", "D", "A", "]", "\n", "\n", "A", "r", "q", "u", "i",
    "v", "o", " ", "M", "i", "c", "r", "o", "s", "o", "f", "t", " ", "W", "o", "r", "d",
    " ", "a", "n", "t", "i", "g", "o", " ", "(", ".", "d", "o", "c", ")", " ", "d", "e",
    "t", "e", "c", "t", "a", "d", "o", ",", " ", "m", "a", "s", " ", "n", "ã", "o", " ",
    "f", "o", "i", " ", "p", "o", "s", "s", "í", "v", "e", "l", " ", "e", "x", "t", "r",
    "a", "i", "r", " ", "t", "e", "x", "t", "o", " ", "s", "u", "f", "i", "c", "i", "e",
    "n", "t", "e", ".", "\n", "\n", "R", "e", "c", "o", "m", "e", "n", "d", "a", "ç",
    "õ", "e", "s", " ", "p", "a", "r", "a", " ", "m", "e", "l", "h", "o", "r", " ", "e",
    "x", "t", "r", "a", "ç", "ã", "o", ":", "\n", "1", ".", " ", "C", "o", "n", "v",
    "e", "r", "t", "e", "r", " ", "p", "a", "r", "a", " ", "D", "O", "C", "X", " ", "u",
    "s", "a", "n", "d", "o", " ", "M", "i", "c", "r", "o", "s", "o", "f", "t", " ", "W",
    "o", "r", "d", "\n", "2", ".", " ", "S", "a", "l", "v", "a", "r", " ", "c", "o",
    "m", "o", " ", "P", "D", "F", "\n", "3", ".", " ", "U", "s", "a", "r", " ", "u",
    "m", "a", " ", "f", "e", "r", "r", "a", "m", "e", "n", "t", "a", " ", "o", "n", "l",
    "i", "n", "e", " ", "d", "e", " ", "c", "o", "n", "v", "e", "r", "s", "ã", "o",
    "\n", "\n", "F", "o", "r", "m", "a", "t", "o", " ", "d", "e", "t", "e", "c", "t",
    "a", "d", "o", ":", " ">>

AdvisorySize ==
  <<"\n", "T", "a", "m", "a", "n", "h", "o", " ", "d", "o", " ", "a", "r", "q", "u",
    "i", "v", "o", ":", " ">>

AdvisoryTail ==
  <<" ", "b", "y", "t", "e", "s">>

(***************************************************************************)
(* The request: what the libraries find in the uploaded file.              *)
(***************************************************************************)

\* page.extract_text(x_tolerance=2) of a page: None, "", blank, or text
PageTexts ==
  {None, Some(<<>>), Some(<<" ", "\n">>), Some(<<" ", "a", "\n">>), Some(<<"b">>)}

\* para.text of a paragraph
ParaTexts == {<<>>, <<" ", "\t">>, <<" ", "p", " ">>}

\* a table of doc.tables: its rows, each the cell.text of its cells
TableSamples ==
  {<<>>,
   <<<<>>>>,
   <<<<<<" ">>>>>>,
   <<<<<<"c">>>>>>,
   <<<<<<"c">>, <<" ", "d">>>>, <<<<>>, <<" ">>>>>>,
   <<<<<<>>, <<"e", " ">>>>, <<<<"f">>>>>>}

\* element.text of a body element that is neither a paragraph nor a table
SpecialTexts == {None, Some(<<" ", "\n">>), Some(<<" ", "s">>)}

W3 == <<"a", "b", "c">>
W4 == <<"a", "b", "c", "d">>
W6 == <<"a", "b", " ", " ", "c", "d">>
WX == <<"a", "×", "b">>
XXX == <<"×", "×", "×">>

\* a stream of ole.listdir(): whether its path names worddocument, 1table or
\* data, whether ole._olestream throws on it, and what re.findall finds in it
Stream(m, t, ws) == [name_matches |-> m, throws |-> t, words |-> ws]

StreamSamples ==
  {Stream(FALSE, FALSE, Rep(7, W3)),
   Stream(TRUE, TRUE, Rep(7, W3)),
   Stream(TRUE, FALSE, <<>>),
   Stream(TRUE, FALSE, <<W6>>),
   Stream(TRUE, FALSE, <<W3, W3, W3, W3, W4>>),
   Stream(TRUE, FALSE, <<W4, W4, W3, W3, W3>>),
   Stream(TRUE, FALSE, Rep(StreamWordCap + 1, W3))}

\* raw_data.decode(encoding, errors='ignore') and re.findall on it, for one
\* encoding of the list: it throws, or finds these words
Decoded(ws) == [throws |-> FALSE, words |-> ws]
DecodeThrows == [throws |-> TRUE, words |-> <<>>]

\* for encoding in [...]
Encodings == <<"latin1", "cp1252", "utf-8", "utf-16">>

RawSamples ==
  {<<Decoded(<<>>), Decoded(<<>>), Decoded(<<>>), Decoded(<<>>)>>,
   <<Decoded(Rep(MinWords, W3)), Decoded(Rep(MinWords, W3)), DecodeThrows,
     Decoded(Rep(3, W4))>>,
   <<Decoded(Rep(MinWords + 1, W3)), Decoded(Rep(MinWords + 2, W4)),
     Decoded(<<>>), DecodeThrows>>,
   <<Decoded(Rep(MinWords, W3)), DecodeThrows, Decoded(Rep(MinWords + 1, WX)),
     Decoded(Rep(MinWords + 1, W3))>>,
   <<DecodeThrows, Decoded(Rep(ChunkWordCap + 1, W3)), Decoded(<<>>),
     Decoded(<<>>)>>,
   <<Decoded(Rep(MinWords + 1, XXX)), Decoded(<<>>), Decoded(<<>>),
     Decoded(<<>>)>>}

\* df.to_string() of the sheet pandas reads
SheetTexts == {<<"E", "m", "p", "t", "y">>, <<" ", "0", "\n", "1">>}

\* len(decoded_bytes)
Sizes == {9, 1536}

File(ok, m, n, pg, ole, st, rw, pa, tb, sp, sh) ==
  [valid_base64 |-> ok, mime |-> m, size |-> n, pages |-> pg, is_ole |-> ole,
   streams |-> st, raw |-> rw, paragraphs |-> pa, tables |-> tb,
   specials |-> sp, sheet |-> sh]

NoRaw == <<Decoded(<<>>), Decoded(<<>>), Decoded(<<>>), Decoded(<<>>)>>

Plain(ok, m, n) == File(ok, m, n, <<>>, FALSE, <<>>, NoRaw, <<>>, <<>>, <<>>, <<>>)

PdfFiles ==
  {File(TRUE, MimePdf, 9, pg, FALSE, <<>>, NoRaw, <<>>, <<>>, <<>>, <<>>) :
     pg \in SeqsUpTo(PageTexts, MaxPages)}

ImageFiles == {Plain(TRUE, m, 9) : m \in {MimePng, MimeJpeg}}

\* a latin1 decoding with enough words, for the files whose streams vary
RawWithWords ==
  <<Decoded(Rep(MinWords + 1, W3)), Decoded(<<>>), Decoded(<<>>), Decoded(<<>>)>>

\* Method 1 reads only the streams and Method 2 only the raw bytes, so the
\* streams and the raw decodings are varied one at a time
DocFiles ==
  {File(TRUE, MimeMsword, 9, <<>>, TRUE, st, RawWithWords, <<>>, <<>>, <<>>, <<>>) :
     st \in SeqsUpTo(StreamSamples, MaxStreams)}
  \cup
  {File(TRUE, MimeMsword, n, <<>>, ole, <<>>, rw, <<>>, <<>>, <<>>, <<>>) :
     n \in Sizes, ole \in BOOLEAN, rw \in RawSamples}

DocxFiles ==
  {File(TRUE, MimeDocx, 9, <<>>, FALSE, <<>>, NoRaw, pa, tb, sp, <<>>) :
     pa \in SeqsUpTo(ParaTexts, MaxParas), tb \in SeqsUpTo(TableSamples, MaxTables),
     sp \in SeqsUpTo(SpecialTexts, MaxSpecials)}

XlsxFiles ==
  {File(TRUE, MimeXlsx, 9, <<>>, FALSE, <<>>, NoRaw, <<>>, <<>>, <<>>, sh) :
     sh \in SheetTexts}

OtherFiles == {Plain(TRUE, m, 9) : m \in {MimeExe, MimePlain, MimeXls}}

\* a file_base64 that base64.b64decode rejects
BadFiles == {Plain(FALSE, <<>>, 0)}

Files ==
  PdfFiles \cup ImageFiles \cup DocFiles \cup DocxFiles \cup XlsxFiles
    \cup OtherFiles \cup BadFiles

(***************************************************************************)
(* The pydantic models and the values process_base64_file builds.          *)
(***************************************************************************)

DefaultSourcePage_First == Some(1)

\* source_page: Optional[int] = None
DefaultSourcePage == None

TextBlock(sp, c) == [type |-> "bloco_texto", source_page |-> sp, content |-> c]

ImageData(m, png) == [original_mime_type |-> m, image_base64_png |-> png]

ImageBlock(sp, d) == [type |-> "bloco_imagem", source_page |-> sp, content |-> d]

\* the base64 of the PNG that convert_from_bytes(..., dpi=200, fmt='PNG',
\* first_page=n, last_page=n)[0] renders, named by what it was rendered from
PagePng(n) == [format |-> "PNG", dpi |-> Some(DPI), first_page |-> Some(n),
               last_page |-> Some(n)]

\* the base64 of the PNG that img.save(buffered, format='PNG') writes
ImagePng == [format |-> "PNG", dpi |-> None, first_page |-> None, last_page |-> None]

SuccessResult(blocks, msg) ==
  [status |-> "success", content_type |-> "documento_unificado",
   data |-> Some(blocks), message |-> msg]

ErrorResult(msg) ==
  [status |-> "error", content_type |-> "error", data |-> None, message |-> msg]

UnsupportedResult_OwnStatus(m) ==
  [status |-> "unsupported", content_type |-> "unsupported", data |-> Some(<<>>),
   message |-> <<"Tipo de arquivo não suportado: ", m>>]

UnsupportedResult(m) ==
  [status |-> "error", content_type |-> "unsupported", data |-> None,
   message |-> <<"Tipo de arquivo não suportado: ", m>>]

HTTPException(code, d) == [status_code |-> code, detail |-> d]

\* except Exception as pdf_error: raise HTTPException(status_code=500, ...)
PdfException(err) == HTTPException(PdfInnerStatus, <<"Erro ao processar PDF: ", err>>)

\* except Exception as e: raise HTTPException(status_code=400, ...); it also
\* catches the HTTPException the PDF branch raises inside the outer try
UnexpectedException(e) ==
  HTTPException(UnexpectedStatus, <<"Ocorreu um erro inesperado: ", e>>)

VARIABLES
  input,           \* the request's file (file_input.file_base64, as the libraries see it)
  pc,              \* where the request is
  mime_type,       \* magic.from_buffer(decoded_bytes, mime=True)
  content_blocks,  \* the list the branches append to
  page_index,      \* how many pages of pdf.pages the loop has gone through
  pdf_error,       \* the exception the PDF branch caught, if any
  extracted_text,  \* the DOC branch's text
  strategy1,       \* how the DOC branch's first method ended
  strategy2,       \* whether its second method ran
  result,          \* what process_base64_file returned, if it returned
  raised,          \* the exception process_base64_file raised, if it raised
  response         \* what create_processing_job answered

vars == <<input, pc, mime_type, content_blocks, page_index, pdf_error,
          extracted_text, strategy1, strategy2, result, raised, response>>

NoResponse == [kind |-> "none", status_code |-> 0, body |-> None]

Init ==
  /\ input \in Files
  /\ pc = "start"
  /\ mime_type = <<>>
  /\ content_blocks = <<>>
  /\ page_index = 0
  /\ pdf_error = None
  /\ extracted_text = <<>>
  /\ strategy1 = "pending"
  /\ strategy2 = "not_tried"
  /\ result = None
  /\ raised = None
  /\ response = NoResponse

Return(r) ==
  /\ result' = Some(r)
  /\ pc' = "returned"
  /\ UNCHANGED raised

Raise(e) ==
  /\ raised' = Some(e)
  /\ pc' = "raised"
  /\ UNCHANGED result

(***************************************************************************)
(* Decoding, sniffing and dispatch.                                        *)
(***************************************************************************)

\* the if / elif chain over mime_type
Dispatch(m) ==
  IF m = MimePdf THEN "pdf"
  ELSE IF StartsWith(m, ImagePrefix) THEN "image"
  ELSE IF m = MimeMsword THEN "doc"
  ELSE IF m = MimeDocx THEN "docx"
  ELSE IF m = MimeXlsx THEN "xlsx"
  ELSE "unsupported"

Sniff ==
  /\ pc = "start"
  /\ input.valid_base64
  /\ mime_type' = input.mime
  /\ pc' = Dispatch(input.mime)
  /\ UNCHANGED <<input, content_blocks, page_index, pdf_error, extracted_text,
                 strategy1, strategy2, result, raised, response>>

DecodeFails ==
  /\ pc = "start"
  /\ ~input.valid_base64
  /\ Raise(UnexpectedException("b64decode"))
  /\ UNCHANGED <<input, mime_type, content_blocks, page_index, pdf_error,
                 extracted_text, strategy1, strategy2, response>>

\* the unsupported type raised like the image and XLSX failures
Unsupported_Raises ==
  /\ pc = "unsupported"
  /\ raised' = Some([status_code |-> UnexpectedStatus,
                     detail |-> <<"Tipo de arquivo não suportado: ", mime_type>>])
  /\ pc' = "raised"
  /\ UNCHANGED <<input, mime_type, content_blocks, page_index, pdf_error,
                 extracted_text, strategy1, strategy2, result, response>>

Unsupported ==
  /\ pc = "unsupported"
  /\ Return(UnsupportedResult(mime_type))
  /\ UNCHANGED <<input, mime_type, content_blocks, page_index, pdf_error,
                 extracted_text, strategy1, strategy2, response>>

(***************************************************************************)
(* The PDF branch: one step per page of pdf.pages.                         *)
(***************************************************************************)

page_number_zero_based(i) == i - 1

\* pdfplumber numbers the pages of pdf.pages 1, 2, ... in order
page_number(i) == i

\* if page_text:
IsTextPage_NoStrip(page_text) == Truthy(page_text)

\* if page_text and page_text.strip():
IsTextPage(page_text) == Truthy(page_text) /\ Strip(page_text[1]) # <<>>

PdfTextPage ==
  /\ pc = "pdf"
  /\ page_index < Len(input.pages)
  /\ LET page_text == input.pages[page_index + 1]
     IN  /\ IsTextPage(page_text)
         /\ content_blocks' =
              Append(content_blocks,
                     TextBlock(Some(page_number(page_index + 1)), Strip(page_text[1])))
  /\ page_index' = page_index + 1
  /\ UNCHANGED <<input, pc, mime_type, pdf_error, extracted_text, strategy1,
                 strategy2, result, raised, response>>

PdfImagePage ==
  /\ pc = "pdf"
  /\ page_index < Len(input.pages)
  /\ ~IsTextPage(input.pages[page_index + 1])
  /\ content_blocks' =
       Append(content_blocks,
              ImageBlock(Some(page_number(page_index + 1)),
                         ImageData(mime_type, PagePng(page_number(page_index + 1)))))
  /\ page_index' = page_index + 1
  /\ UNCHANGED <<input, pc, mime_type, pdf_error, extracted_text, strategy1,
                 strategy2, result, raised, response>>

\* the calls of the PDF branch that can throw where the loop stands
PdfThrowers ==
  (IF page_index = 0 THEN {"pdfplumber.open"} ELSE {})
    \cup (IF page_index < Len(input.pages) THEN {"extract_text"} ELSE {})
    \cup (IF page_index < Len(input.pages) /\ ~IsTextPage(input.pages[page_index + 1])
          THEN {"convert_from_bytes"} ELSE {})

\* a page that cannot be read is left out and the loop goes on
PdfFails_SkipPage ==
  /\ pc = "pdf"
  /\ page_index < Len(input.pages)
  /\ \E call \in PdfThrowers :
       pdf_error' = Some([call |-> call, page |-> page_index + 1])
  /\ page_index' = page_index + 1
  /\ UNCHANGED <<input, pc, mime_type, content_blocks, extracted_text, strategy1,
                 strategy2, result, raised, response>>

\* an exception inside `with pdfplumber.open(...)`: caught, raised again as
\* HTTPException(500), which the outer handler catches and raises as 400
PdfFails ==
  /\ pc = "pdf"
  /\ \E call \in PdfThrowers :
       /\ pdf_error' = Some([call |-> call, page |-> page_index + 1])
       /\ Raise(UnexpectedException(PdfException(call)))
  /\ UNCHANGED <<input, mime_type, content_blocks, page_index, extracted_text,
                 strategy1, strategy2, response>>

PdfReturn ==
  /\ pc = "pdf"
  /\ page_index = Len(input.pages)
  /\ Return(SuccessResult(content_blocks,
                          <<"PDF processado. Total de ", Digits(Len(content_blocks)),
                            " páginas.">>))
  /\ UNCHANGED <<input, mime_type, content_blocks, page_index, pdf_error,
                 extracted_text, strategy1, strategy2, response>>

(***************************************************************************)
(* The image branch.                                                       *)
(***************************************************************************)

ImageConverted ==
  /\ pc = "image"
  /\ content_blocks' =
       Append(content_blocks, ImageBlock(DefaultSourcePage, ImageData(mime_type, ImagePng)))
  /\ Return(SuccessResult(content_blocks',
                          <<"Arquivo de imagem (", mime_type, ") processado.">>))
  /\ UNCHANGED <<input, mime_type, page_index, pdf_error, extracted_text,
                 strategy1, strategy2, response>>

\* Image.open or img.save throws: only the outer handler catches it
ImageFails ==
  /\ pc = "image"
  /\ \E call \in {"Image.open", "img.save"} : Raise(UnexpectedException(call))
  /\ UNCHANGED <<input, mime_type, content_blocks, page_index, pdf_error,
                 extracted_text, strategy1, strategy2, response>>

(***************************************************************************)
(* The XLSX branch.                                                        *)
(***************************************************************************)

XlsxConverted ==
  /\ pc = "xlsx"
  /\ content_blocks' = Append(content_blocks, TextBlock(DefaultSourcePage, input.sheet))
  /\ Return(SuccessResult(content_blocks', <<"Arquivo XLSX processado.">>))
  /\ UNCHANGED <<input, mime_type, page_index, pdf_error, extracted_text,
                 strategy1, strategy2, response>>

\* pd.read_excel throws: only the outer handler catches it
XlsxFails ==
  /\ pc = "xlsx"
  /\ Raise(UnexpectedException("pd.read_excel"))
  /\ UNCHANGED <<input, mime_type, content_blocks, page_index, pdf_error,
                 extracted_text, strategy1, strategy2, response>>

(***************************************************************************)
(* The legacy DOC branch.  Method 1 and Method 2 each sit in a try of      *)
(* their own, and nothing after them can throw, so the branch's outer      *)
(* handler (except Exception as doc_error) is entered only when olefile or *)
(* oletools cannot be imported; the model takes both to be installed, as   *)
(* it takes the imports at the top of the file to succeed.                 *)
(***************************************************************************)

\* what one stream adds to text_content: words[:100] of a stream whose path
\* matches and whose read does not throw (a throw is `continue`)
StreamWords(s) ==
  IF s.name_matches /\ ~s.throws THEN Take(s.words, StreamWordCap) ELSE <<>>

ScannedWords(streams) == Flatten([i \in DOMAIN streams |-> StreamWords(streams[i])])

\* Method 1 without an exception: ' '.join(text_content[:200]), whitespace
\* collapsed and stripped; "" when no stream yields words
Strategy1Text(streams) ==
  IF ScannedWords(streams) # <<>>
  THEN Strip(CollapseSpaces(Join(<<" ">>, Take(ScannedWords(streams), TotalWordCap))))
  ELSE <<>>

\* Method 2: the first encoding of the list that decodes without throwing
\* and yields more than 10 words gives words[:50]; raw[i] is what decoding
\* under Encodings[i] gives
Strategy2Chunks(raw) ==
  LET hits == {i \in DOMAIN Encodings :
                 ~raw[i].throws /\ Len(raw[i].words) > MinWords}
  IN  IF hits = {} THEN <<>>
      ELSE Take(raw[CHOOSE i \in hits : \A j \in hits : i <= j].words, ChunkWordCap)

Strategy2Text(raw) ==
  IF Strategy2Chunks(raw) # <<>> THEN Join(<<" ">>, Strategy2Chunks(raw)) ELSE <<>>

\* olefile.isOleFile(file_stream) is False: Method 1 ends with no text and
\* no exception, so the handler holding Method 2 is not entered
DocNotOle ==
  /\ pc = "doc"
  /\ ~input.is_ole
  /\ strategy1' = "not_ole"
  /\ pc' = "doc_result"
  /\ UNCHANGED <<input, mime_type, content_blocks, page_index, pdf_error,
                 extracted_text, strategy2, result, raised, response>>

DocScan ==
  /\ pc = "doc"
  /\ input.is_ole
  /\ extracted_text' = Strategy1Text(input.streams)
  /\ strategy1' = IF ScannedWords(input.streams) # <<>> THEN "text" ELSE "no_words"
  /\ pc' = "doc_result"
  /\ UNCHANGED <<input, mime_type, content_blocks, page_index, pdf_error,
                 strategy2, result, raised, response>>

\* the calls of Method 1 outside the per-stream try that can throw
Method1Throwers ==
  IF input.is_ole
  THEN {"isOleFile", "VBA_Parser", "OleFileIO", "listdir", "close"}
  ELSE {"isOleFile"}

\* except Exception as oletools_error: extracted_text is still ""
DocMethod1Throws ==
  /\ pc = "doc"
  /\ \E call \in Method1Throwers : strategy1' = "threw"
  /\ pc' = "doc_fallback"
  /\ UNCHANGED <<input, mime_type, content_blocks, page_index, pdf_error,
                 extracted_text, strategy2, result, raised, response>>

DocFallback ==
  /\ pc = "doc_fallback"
  /\ extracted_text' = Strategy2Text(input.raw)
  /\ strategy2' = "ran"
  /\ pc' = "doc_result"
  /\ UNCHANGED <<input, mime_type, content_blocks, page_index, pdf_error,
                 strategy1, result, raised, response>>

\* except Exception as basic_error: extracted_text = ""
DocFallbackThrows ==
  /\ pc = "doc_fallback"
  /\ extracted_text' = <<>>
  /\ strategy2' = "threw"
  /\ pc' = "doc_result"
  /\ UNCHANGED <<input, mime_type, content_blocks, page_index, pdf_error,
                 strategy1, result, raised, response>>

\* the threshold tested with >= instead of >
EnoughText_AtLeast(t) == t # <<>> /\ Len(Strip(t)) >= MinTextLen

\* if extracted_text and len(extracted_text.strip()) > 20:
EnoughText(t) == t # <<>> /\ Len(Strip(t)) > MinTextLen

DocNote(t) == DocNoteHead \o FinalCleanup(t) \o DocNoteTail

DocAdvisory(m, n) == AdvisoryHead \o m \o AdvisorySize \o Digits(n) \o AdvisoryTail

DocText ==
  /\ pc = "doc_result"
  /\ EnoughText(extracted_text)
  /\ content_blocks' =
       Append(content_blocks, TextBlock(DefaultSourcePage, DocNote(extracted_text)))
  /\ Return(SuccessResult(content_blocks',
                          <<"Texto extraído de arquivo DOC antigo com sucesso.">>))
  /\ UNCHANGED <<input, mime_type, page_index, pdf_error, extracted_text,
                 strategy1, strategy2, response>>

DocLimited ==
  /\ pc = "doc_result"
  /\ ~EnoughText(extracted_text)
  /\ content_blocks' =
       Append(content_blocks,
              TextBlock(DefaultSourcePage, DocAdvisory(mime_type, input.size)))
  /\ Return(SuccessResult(content_blocks',
       <<"Arquivo DOC detectado mas extração limitada. Recomenda-se conversão.">>))
  /\ UNCHANGED <<input, mime_type, page_index, pdf_error, extracted_text,
                 strategy1, strategy2, response>>

(***************************************************************************)
(* The DOCX branch.                                                        *)
(***************************************************************************)

NonEmpty(s) == s # <<>>

StripAll(texts) == [i \in DOMAIN texts |-> Strip(texts[i])]

\* the stripped text of every paragraph whose text is not blank
ParagraphLines(paragraphs) == SelectSeq(StripAll(paragraphs), NonEmpty)

\* " | ".join(row_content) of a row's non-blank cells; "" marks a row without
RowLine(row) == Join(CellSep, SelectSeq(StripAll(row), NonEmpty))

\* table_content: the lines of the rows that have a non-blank cell
TableContent(table) == SelectSeq([i \in DOMAIN table |-> RowLine(table[i])], NonEmpty)

TableLines(table) ==
  IF TableContent(table) # <<>>
  THEN <<TableStart>> \o TableContent(table) \o <<TableEnd>>
  ELSE <<>>

HasElementText(t) == Truthy(t) /\ Strip(t[1]) # <<>>

\* the lines of the first n body elements that are neither paragraph nor table
SpecialLines(specials, n) ==
  LET found == SelectSeq(SubSeq(specials, 1, n), HasElementText)
  IN  [i \in DOMAIN found |-> SpecialPrefix \o Strip(found[i][1])]

\* extracted_content when the XML walk gets through n elements
ExtractedContent(file, n) ==
  ParagraphLines(file.paragraphs)
    \o Flatten([i \in DOMAIN file.tables |-> TableLines(file.tables[i])])
    \o SpecialLines(file.specials, n)

\* the emptiness test left out
DocxHasText_Always(text_content) == TRUE

\* if text_content and text_content.strip():
DocxHasText(text_content) == text_content # <<>> /\ Strip(text_content) # <<>>

\* the whole branch without an exception outside the XML walk; the walk is
\* cut short after n elements when it throws (except Exception: pass)
DocxExtract ==
  /\ pc = "docx"
  /\ \E n \in 0..Len(input.specials) :
       LET text_content == Join(<<"\n">>, ExtractedContent(input, n))
       IN  IF DocxHasText(text_content)
           THEN /\ content_blocks' =
                     Append(content_blocks,
                            TextBlock(DefaultSourcePage, Strip(text_content)))
                /\ Return(SuccessResult(content_blocks',
                     <<"Arquivo DOCX processado com extração aprimorada.">>))
           ELSE /\ content_blocks' = content_blocks
                /\ Return(ErrorResult(
                     <<"Documento DOCX está vazio ou não contém texto extraível.">>))
  /\ UNCHANGED <<input, mime_type, page_index, pdf_error, extracted_text,
                 strategy1, strategy2, response>>

\* except Exception as docx_error: an error result is returned, not raised
DocxFails ==
  /\ pc = "docx"
  /\ Return(ErrorResult(<<"Erro ao processar arquivo DOCX: ", "docx.Document">>))
  /\ UNCHANGED <<input, mime_type, content_blocks, page_index, pdf_error,
                 extracted_text, strategy1, strategy2, response>>

(***************************************************************************)
(* The endpoint.                                                           *)
(***************************************************************************)

\* if result["status"] == "error": raise HTTPException(status_code=400, ...)
EndpointRejects ==
  /\ pc = "returned"
  /\ result[1].status = "error"
  /\ response' = [kind |-> "http_error", status_code |-> EndpointStatus, body |-> None]
  /\ pc' = "responded"
  /\ UNCHANGED <<input, mime_type, content_blocks, page_index, pdf_error,
                 extracted_text, strategy1, strategy2, result, raised>>

\* return result
EndpointReturns ==
  /\ pc = "returned"
  /\ result[1].status # "error"
  /\ response' = [kind |-> "body", status_code |-> 200, body |-> result]
  /\ pc' = "responded"
  /\ UNCHANGED <<input, mime_type, content_blocks, page_index, pdf_error,
                 extracted_text, strategy1, strategy2, result, raised>>

\* the HTTPException process_base64_file raised leaves the endpoint as it is
EndpointPropagates ==
  /\ pc = "raised"
  /\ response' = [kind |-> "http_error", status_code |-> raised[1].status_code,
                  body |-> None]
  /\ pc' = "responded"
  /\ UNCHANGED <<input, mime_type, content_blocks, page_index, pdf_error,
                 extracted_text, strategy1, strategy2, result, raised>>

Next ==
  \/ Sniff
  \/ DecodeFails
  \/ Unsupported
  \/ PdfTextPage
  \/ PdfImagePage
  \/ PdfFails
  \/ PdfReturn
  \/ ImageConverted
  \/ ImageFails
  \/ XlsxConverted
  \/ XlsxFails
  \/ DocNotOle
  \/ DocScan
  \/ DocMethod1Throws
  \/ DocFallback
  \/ DocFallbackThrows
  \/ DocText
  \/ DocLimited
  \/ DocxExtract
  \/ DocxFails
  \/ EndpointRejects
  \/ EndpointReturns
  \/ EndpointPropagates

Spec == Init /\ [][Next]_vars

(***************************************************************************)
(* The properties.                                                         *)
(***************************************************************************)

Finished == pc \in {"returned", "raised", "responded"}

Returned == result # None

\* the media types of the dispatch table, as the specification lists them
IsPdf(m) == m = MimePdf
IsImage(m) == StartsWith(m, ImagePrefix)
IsLegacyDoc(m) == m = MimeMsword
IsDocx(m) == m = MimeDocx
IsXlsx(m) == m = MimeXlsx
InDispatchTable(m) == IsPdf(m) \/ IsImage(m) \/ IsLegacyDoc(m) \/ IsDocx(m) \/ IsXlsx(m)

Succeeded == Returned /\ result[1].status = "success"

\* C1: for every input whose sniffed media type is in the dispatch table,
\* whatever the parser or rasterizer does, process_base64_file never raises:
\* once it has finished it has returned a result with a valid status.
C1_NeverRaises ==
  (input.valid_base64 /\ InDispatchTable(input.mime) /\ Finished)
    => /\ raised = None
       /\ Returned
       /\ result[1].status \in {"success", "error", "unsupported"}

\* C2, as claimed: an input whose media type is in no dispatch entry gets a
\* returned result with status 'unsupported' (not 'error') and an empty
\* block sequence.
C2_StatusUnsupported ==
  (input.valid_base64 /\ ~InDispatchTable(input.mime) /\ Finished)
    => /\ raised = None
       /\ Returned
       /\ result[1].status = "unsupported"
       /\ result[1].status # "error"
       /\ result[1].data = Some(<<>>)

\* C2, amended: an input whose media type is in no dispatch entry makes
\* process_base64_file return (never raise) a result with status 'error',
\* content_type 'unsupported' and data None (no block sequence at all), and
\* the endpoint answers that result with HTTP 400.
C2_UnsupportedIsErrorResult ==
  (input.valid_base64 /\ ~InDispatchTable(input.mime) /\ Finished)
    => /\ raised = None
       /\ Returned
       /\ result[1].status = "error"
       /\ result[1].content_type = "unsupported"
       /\ result[1].data = None
       /\ pc = "responded"
            => response.kind = "http_error" /\ response.status_code = 400

C2_Witness ==
  /\ pc = "responded"
  /\ input.mime = MimeExe
  /\ Returned
  /\ result[1].content_type = "unsupported"

\* the text of page i is non-empty after trimming whitespace
HasTextAfterTrim(t) == t # None /\ Strip(t[1]) # <<>>

\* the block the decision rule asks for page i, given only that page's text
IsBlockOfPage(b, i, t) ==
  IF HasTextAfterTrim(t)
  THEN /\ b.type = "bloco_texto"
       /\ b.content = Strip(t[1])
  ELSE /\ b.type = "bloco_imagem"
       /\ b.content.original_mime_type = MimePdf
       /\ b.content.image_base64_png.format = "PNG"
       /\ b.content.image_base64_png.first_page = Some(i)
       /\ b.content.image_base64_png.last_page = Some(i)

\* C3: in the PDF extractor the block of every page is decided by that page
\* alone: a TextBlock carrying the trimmed text if and only if the page's
\* text is non-empty after trimming, otherwise an ImageBlock rasterized from
\* that single page with original media type application/pdf.
C3_PerPageDecision ==
  IsPdf(input.mime)
    => \A i \in 1..Len(content_blocks) :
         IsBlockOfPage(content_blocks[i], i, input.pages[i])

\* a (text page, scanned page) document returned as [TextBlock, ImageBlock]
C3_Witness ==
  /\ IsPdf(input.mime)
  /\ Succeeded
  /\ input.pages = <<Some(<<" ", "a", "\n">>), None>>
  /\ Len(result[1].data[1]) = 2
  /\ result[1].data[1][1].type = "bloco_texto"
  /\ result[1].data[1][1].content = <<"a">>
  /\ result[1].data[1][2].type = "bloco_imagem"

\* C4: at every point of the page loop the accumulated list holds exactly
\* one block for each page already gone through, the i-th with source_page
\* i, and a success result for an n-page PDF holds exactly n blocks.
C4_OneBlockPerPageInOrder ==
  IsPdf(input.mime)
    => /\ Len(content_blocks) = page_index
       /\ \A i \in 1..Len(content_blocks) : content_blocks[i].source_page = Some(i)
       /\ Succeeded
            => /\ result[1].data = Some(content_blocks)
               /\ Len(result[1].data[1]) = Len(input.pages)

C4_Witness ==
  /\ IsPdf(input.mime)
  /\ Succeeded
  /\ Len(input.pages) = MaxPages
  /\ Len(result[1].data[1]) = MaxPages
  /\ result[1].data[1][MaxPages].source_page = Some(MaxPages)

\* C5: once text extraction or rasterization has failed on page k of a PDF,
\* the document has failed: the loop stands at page k for good (k is not
\* skipped, no later page is gone through), nothing is returned, and the
\* endpoint's answer carries none of the blocks of pages 1..k-1.
C5_PageFailureFailsDocument ==
  pdf_error # None
    => /\ pc \in {"raised", "responded"}
       /\ page_index = pdf_error[1].page - 1
       /\ Len(content_blocks) = pdf_error[1].page - 1
       /\ result = None
       /\ raised # None
       /\ response.body = None
       /\ pc = "responded" => response.kind = "http_error"

\* a failure on a later page, after blocks were extracted, has been answered
C5_Witness ==
  /\ pdf_error # None
  /\ pdf_error[1].page = MaxPages
  /\ pdf_error[1].call = "convert_from_bytes"
  /\ Len(content_blocks) = MaxPages - 1
  /\ pc = "responded"

NoParagraphText(file) == \A i \in DOMAIN file.paragraphs : Strip(file.paragraphs[i]) = <<>>

NoTableText(file) ==
  \A i \in DOMAIN file.tables : \A r \in DOMAIN file.tables[i] :
    \A c \in DOMAIN file.tables[i][r] : Strip(file.tables[i][r][c]) = <<>>

NoSpecialText(file) ==
  \A i \in DOMAIN file.specials :
    file.specials[i] = None \/ Strip(file.specials[i][1]) = <<>>

OneTextBlockWithText ==
  /\ Len(result[1].data[1]) = 1
  /\ result[1].data[1][1].type = "bloco_texto"
  /\ Strip(result[1].data[1][1].content) # <<>>

\* C6, as claimed: a DOCX with no non-empty paragraph and no table with a
\* non-empty cell ends in an error, never a success; and every DOCX success
\* holds exactly one TextBlock whose text is non-empty after trimming.
C6_NoParagraphNoTableIsError ==
  (IsDocx(input.mime) /\ Finished)
    => /\ (NoParagraphText(input) /\ NoTableText(input))
            => (Returned /\ result[1].status = "error")
       /\ Succeeded => OneTextBlockWithText

\* C6, amended: a DOCX with no non-empty paragraph, no table with a
\* non-empty cell and no other body element with non-blank text ends in an
\* error, never a success; and every DOCX success holds exactly one
\* TextBlock whose text is non-empty after trimming.
C6_NoTextAnywhereIsError ==
  (IsDocx(input.mime) /\ Finished)
    => /\ (NoParagraphText(input) /\ NoTableText(input) /\ NoSpecialText(input))
            => (Returned /\ result[1].status = "error" /\ result[1].data = None)
       /\ Succeeded => OneTextBlockWithText

\* blank paragraphs, a table of blank cells and a blank element: an error
C6_Witness ==
  /\ IsDocx(input.mime)
  /\ input.paragraphs = <<<<" ", "\t">>>>
  /\ input.tables = <<<<<<<<" ">>>>>>>>
  /\ input.specials = <<Some(<<" ", "\n">>)>>
  /\ Returned
  /\ result[1].status = "error"

Contains(s, t) == \E i \in 1..(Len(s) - Len(t) + 1) : SubSeq(s, i, i + Len(t) - 1) = t

EndsWith(s, t) == Len(s) >= Len(t) /\ SubSeq(s, Len(s) - Len(t) + 1, Len(s)) = t

IsAdvisory(c) ==
  /\ StartsWith(c, AdvisoryHead)
  /\ Contains(c, input.mime)
  /\ Contains(c, Digits(input.size) \o <<" ", "b", "y", "t", "e", "s">>)

IsProvenanceNote(c, t) ==
  /\ StartsWith(c, DocNoteHead)
  /\ EndsWith(c, DocNoteTail)
  /\ c = DocNoteHead \o FinalCleanup(t) \o DocNoteTail

C8_SourcePageOnlyForPdf ==
  Succeeded
    => IF IsPdf(input.mime)
       THEN \A i \in 1..Len(result[1].data[1]) :
              /\ result[1].data[1][i].source_page # None
              /\ result[1].data[1][i].source_page[1] \in Nat \ {0}
       ELSE /\ Len(result[1].data[1]) = 1
            /\ result[1].data[1][1].source_page = None

C8_Witness ==
  /\ IsImage(input.mime)
  /\ Succeeded
  /\ Len(result[1].data[1]) = 1
  /\ result[1].data[1][1].type = "bloco_imagem"
  /\ result[1].data[1][1].source_page = None

\* C9: strategy 2 is attempted whenever strategy 1 yields nothing usable,
\* whether it threw, found no valid container or found no words in any
\* stream, and is never attempted when strategy 1 produced text.
C9_FallbackWheneverNothingUsable ==
  (IsLegacyDoc(input.mime) /\ pc \in {"doc_result", "returned", "responded"})
    => /\ strategy1 \in {"threw", "not_ole", "no_words"} => strategy2 # "not_tried"
       /\ strategy1 = "text" => strategy2 = "not_tried"

\* C10: every returned dict couples its fields: status 'success' with
\* content_type 'documento_unificado' and a list of blocks, status 'error'
\* with data None and content_type 'error' or 'unsupported', and nothing
\* else; the endpoint returns a body only for a success result and answers
\* every returned error or unsupported result with HTTP 400.
C10_EnvelopeConsistency ==
  Returned
    => /\ result[1].status \in {"success", "error"}
       /\ result[1].status = "success" <=> result[1].content_type = "documento_unificado"
       /\ result[1].status = "success" <=> result[1].data # None
       /\ result[1].status = "error"
            <=> (result[1].data = None /\ result[1].content_type \in {"error", "unsupported"})
       /\ pc = "responded"
            => /\ response.kind = "body" <=> result[1].status = "success"
               /\ response.kind = "body" => response.body = result
               /\ result[1].status = "error"
                    => response.kind = "http_error" /\ response.status_code = 400

\* a returned error result answered with HTTP 400
C10_Witness ==
  /\ pc = "responded"
  /\ Returned
  /\ result[1].status = "error"
  /\ result[1].content_type = "error"
  /\ response.kind = "http_error"

=============================================================================
